---- MODULE Spec2Model ----
(***************************************************************************)
(* Model of fp_analysis.py: the driver (the __main__ block) walks a root   *)
(* directory and submits one run_pass task per file to a process pool;     *)
(* run_pass lowers the file to LLVM IR with the frontend of its extension, *)
(* runs opt over <base name>.ll in the working directory, removes the IR,  *)
(* appends the .csv report to <root>/results.csv and moves the report into *)
(* <root>/file-results.                                                    *)
(*                                                                         *)
(* External tools are modelled by their contract: a frontend that exits    *)
(* zero leaves <base name>.ll in the working directory, opt that exits     *)
(* zero leaves <base name>.csv where run_pass looks for it (the working    *)
(* directory for .rs, the root otherwise); a tool that exits non-zero      *)
(* leaves nothing.  subprocess.run is called without check=True, so a      *)
(* non-zero exit is not an exception; the tools are taken to be installed  *)
(* (subprocess.run itself does not raise).  The working directory is taken *)
(* to be a directory other than the root and outside of it.                *)
(*                                                                         *)
(* Spec is one run in which every tool invocation returns, SpecRerun runs  *)
(* the program repeatedly against the same root, and SpecHang is one run   *)
(* in which a tool may never exit.  stdout holds what the driver prints;   *)
(* run_pass prints nothing.                                                *)
(***************************************************************************)
EXTENDS Integers, Sequences, FiniteSets, TLC

\* ---------------------------------------------------------------- bounds
\* number of worker processes of the pool (multiprocessing.Pool())
PoolSize == 2
\* largest number of files in the scanned tree
MaxFiles == 2
\* largest number of tokens given to --langs
MaxLangs == 2
\* largest number of write() calls one report takes when it is copied
MaxChunks == 2
\* number of times the program is run against the same root
MaxRuns == 2
\* largest number of tasks one run submits
MaxTasks == 2
\* largest number of files the loops of the restricted mode look at in one
\* run: tokens times files
MaxWalk == 4

\* ---------------------------------------------------------------- files
\* The candidate source files of the tree.  Files 1 and 6 share the base
\* name "a" and live in different directories; the name of file 5 starts
\* with a blank.
FileIds == {1, 2, 3, 4, 5, 6}

FileName(f) ==
    CASE f = 1 -> [dir |-> "root", base |-> "a", ext |-> ".c"]
      [] f = 2 -> [dir |-> "root", base |-> "b", ext |-> ".rs"]
      [] f = 3 -> [dir |-> "root", base |-> "n", ext |-> ".txt"]
      [] f = 4 -> [dir |-> "root", base |-> "d", ext |-> ".scala"]
      [] f = 5 -> [dir |-> "root", base |-> " a", ext |-> ".c"]
      [] f = 6 -> [dir |-> "sub",  base |-> "a", ext |-> ".c"]

Bases == {"a", "b", "d", "n", " a"}

\* str.strip() on the base names of the model
Strip(b) ==
    CASE b = " a" -> "a"
      [] OTHER -> b

\* the directories a report is looked for in
Locs == {"cwd", "root"}

\* an absent file / the content of a report: o is the source file whose IR
\* was analysed, n the number of write() calls its copy takes
NoReport == [o |-> 0, n |-> 0]

\* The tokens that may be given to --langs: a language name that is not in
\* lower case, and a name the program does not know.
Tokens == {"Rust", "cobol"}

\* str.lower() on the tokens of the model
Lower(s) ==
    CASE s = "Rust" -> "rust"
      [] OTHER -> s

\* the chain with an else branch that falls back to C instead of continue
LangExtDefaultC(lang) ==
    CASE lang = "rust" -> "rs"
      [] OTHER -> "c"

\* the if/elif chain of the restricted mode: language name -> extension
\* without the dot; "" stands for the else branch (continue)
LangExt(lang) ==
    CASE lang = "c" -> "c"
      [] lang = "c++" -> "cpp"
      [] lang = "haskell" -> "hs"
      [] lang = "rust" -> "rs"
      [] lang = "java" -> "java"
      [] lang = "swift" -> "swift"
      [] lang = "scala" -> "scala"
      [] lang = "objective-c" -> "m"
      [] lang = "ruby" -> "rb"
      [] OTHER -> ""

\* "." + ext
DotExt(ext) ==
    CASE ext = "c" -> ".c"
      [] ext = "cpp" -> ".cpp"
      [] ext = "hs" -> ".hs"
      [] ext = "rs" -> ".rs"
      [] ext = "java" -> ".java"
      [] ext = "swift" -> ".swift"
      [] ext = "scala" -> ".scala"
      [] ext = "m" -> ".m"
      [] ext = "rb" -> ".rb"
      [] OTHER -> "."

\* the chain with .txt sent to a frontend as well
SupportedAndTxt(ext) ==
    ext \in {".c", ".cpp", ".hs", ".rs", ".java", ".swift", ".scala", ".m", ".rb", ".txt"}

\* the if/elif chain of run_pass: the extensions with a frontend
Supported(ext) ==
    ext \in {".c", ".cpp", ".hs", ".rs", ".java", ".swift", ".scala", ".m", ".rb"}

VARIABLES
    rootKind,     \* what --dir names: "dir", "file" or "missing"
    tree,         \* the source files under the root
    langs,        \* the --langs tokens; <<>> when absent or empty
    run,          \* number of the current run
    dpc,          \* position of the driver
    exitCode,     \* exit code of the driver, -1 while running
    li,           \* restricted mode: index of the current token
    wi,           \* index of the next file of the current walk
    tasks,        \* the tasks submitted to the pool, in order
    ll,           \* working directory: <base>.ll, 0 absent, else source file
    sfile,        \* working directory: <base>.s, 0 absent, else source file
    reports,      \* <loc>/<base>.csv
    csvFolder,    \* <root>/file-results exists
    fileResults,  \* <root>/file-results/<base>.csv
    aggExists,    \* <root>/results.csv exists
    aggregate,    \* contents of <root>/results.csv, one element per write()
    aggAtStart,   \* contents of results.csv when the current run started
    dirAtStart,   \* file-results existed when the current run started
    stdout        \* what the current run has printed

vars == <<rootKind, tree, langs, run, dpc, exitCode, li, wi, tasks,
          ll, sfile, reports, csvFolder, fileResults, aggExists, aggregate,
          aggAtStart, dirAtStart, stdout>>

args == <<rootKind, tree, langs>>
fs == <<ll, sfile, reports, fileResults, aggExists, aggregate>>

\* os.walk(root_dir): the files of the root, then those of its
\* subdirectories (top-down).  The .csv files the program itself leaves
\* under the root are left out of the walk: their tasks return at line 49
\* like the task of n.txt.
RECURSIVE WalkFrom(_, _)
WalkFrom(f, t) ==
    IF f \notin FileIds THEN <<>>
    ELSE IF f \in t THEN <<f>> \o WalkFrom(f + 1, t) ELSE WalkFrom(f + 1, t)

Walk == WalkFrom(1, tree)

\* `not langs`: --langs absent or given without tokens
Unrestricted == langs = <<>>

\* the number of tasks a run over tree t with tokens l submits
RECURSIVE Matches(_, _, _)
Matches(t, l, i) ==
    IF i > Len(l) THEN 0
    ELSE Cardinality({f \in t : FileName(f).ext = DotExt(LangExt(Lower(l[i])))})
         + Matches(t, l, i + 1)

Submitted(t, l) == IF l = <<>> THEN Cardinality(t) ELSE Matches(t, l, 1)

SeqsUpTo(S, n) == UNION {[1..k -> S] : k \in 0..n}

Init ==
    /\ rootKind \in {"dir", "file", "missing"}
    /\ tree \in {t \in SUBSET FileIds : Cardinality(t) <= MaxFiles}
    /\ langs \in SeqsUpTo(Tokens, MaxLangs)
    /\ Submitted(tree, langs) <= MaxTasks
    /\ Len(langs) * Cardinality(tree) <= MaxWalk
    /\ run = 1
    /\ dpc = "start"
    /\ exitCode = -1
    /\ li = 1
    /\ wi = 1
    /\ tasks = <<>>
    /\ ll = [b \in Bases |-> 0]
    /\ sfile = [b \in Bases |-> 0]
    /\ reports = [p \in Locs \X Bases |-> NoReport]
    /\ csvFolder = FALSE
    /\ fileResults = [b \in Bases |-> NoReport]
    /\ aggExists = FALSE
    /\ aggregate = <<>>
    /\ aggAtStart = <<>>
    /\ dirAtStart = FALSE
    /\ stdout = <<>>

\* ---------------------------------------------------------------- driver
\* the arguments of one pool.apply_async(run_pass, ...) and the progress of
\* the task: fe/an are the outcomes of its frontend and opt invocations
\* ("none" while not invoked; "noir" when opt found no <base>.ll), buf the
\* part of the report not yet written, out how run_pass ended ("raised": by
\* an exception, which the pool keeps in a result nobody reads), at the
\* statement that raised it, rm whether the task's os.remove at line 64
\* removed a file, mv what shutil.move did
NewTask(f, tok) ==
    [f |-> f, tok |-> tok, pc |-> "queued", fe |-> "none", an |-> "none",
     buf |-> <<>>, out |-> "run", at |-> "none", rm |-> FALSE, mv |-> "none"]

\* os.path.exists in place of os.path.isdir
PathExists(kind) == kind # "missing"

\* os.path.isdir(root_dir)
IsDir(kind) == kind = "dir"

\* line 103: print(f"{root_dir} is not a valid directory.")
InvalidMessage == [text |-> "is not a valid directory."]

\* line 176: print(f"Done. Check {output_file} and {csv_folder}.")
DoneMessage ==
    [text |-> "Done. Check", output_file |-> "results.csv", csv_folder |-> "file-results"]

\* lines 100-104: the root is validated; exit(1) when it is no directory
Validate ==
    /\ dpc = "start"
    /\ IF IsDir(rootKind)
       THEN dpc' = "mkdirs" /\ exitCode' = exitCode /\ stdout' = stdout
       ELSE dpc' = "exited" /\ exitCode' = 1 /\ stdout' = Append(stdout, InvalidMessage)
    /\ UNCHANGED <<args, run, li, wi, tasks, fs, csvFolder, aggAtStart, dirAtStart>>

\* lines 106-115: os.makedirs(csv_folder, exist_ok=True); the mode is chosen
MakeDirs ==
    /\ dpc = "mkdirs"
    /\ csvFolder' = TRUE
    /\ dpc' = IF Unrestricted THEN "walk" ELSE "lang"
    /\ li' = 1
    /\ wi' = 1
    /\ UNCHANGED <<args, stdout, run, exitCode, tasks, fs, aggAtStart, dirAtStart>>

\* lines 135-157: the next token is lowered and resolved to an extension;
\* an unrecognized token is skipped (continue)
ResolveLang ==
    /\ dpc = "lang"
    /\ li <= Len(langs)
    /\ IF LangExt(Lower(langs[li])) = ""
       THEN li' = li + 1 /\ dpc' = dpc /\ wi' = wi
       ELSE li' = li /\ dpc' = "walk" /\ wi' = 1
    /\ UNCHANGED <<args, stdout, run, exitCode, tasks, fs, csvFolder, aggAtStart, dirAtStart>>

\* the file the walk is looking at is submitted: always in the unrestricted
\* mode (line 119), when its extension is that of the token otherwise (162)
Selected(f) ==
    \/ Unrestricted
    \/ FileName(f).ext = DotExt(LangExt(Lower(langs[li])))

\* lines 118-128 and 160-171: one iteration of the loop over the files
WalkStep ==
    /\ dpc = "walk"
    /\ wi <= Len(Walk)
    /\ tasks' = IF Selected(Walk[wi])
                THEN Append(tasks, NewTask(Walk[wi], IF Unrestricted THEN 0 ELSE li))
                ELSE tasks
    /\ wi' = wi + 1
    /\ UNCHANGED <<args, stdout, run, dpc, exitCode, li, fs, csvFolder, aggAtStart, dirAtStart>>

\* the walk is exhausted: the next token, or the end of the submissions
WalkEnd ==
    /\ dpc = "walk"
    /\ wi > Len(Walk)
    /\ IF Unrestricted
       THEN dpc' = "join" /\ li' = li
       ELSE dpc' = "lang" /\ li' = li + 1
    /\ UNCHANGED <<args, stdout, run, exitCode, wi, tasks, fs, csvFolder, aggAtStart, dirAtStart>>

\* the loop over the tokens is exhausted
LangsDone ==
    /\ dpc = "lang"
    /\ li > Len(langs)
    /\ dpc' = "join"
    /\ UNCHANGED <<args, stdout, run, exitCode, li, wi, tasks, fs, csvFolder, aggAtStart, dirAtStart>>

Ended(t) == tasks[t].pc = "end"
AllEnded == \A t \in 1..Len(tasks) : Ended(t)

\* the final message printed without pool.join()
JoinWithoutWaiting ==
    /\ dpc = "join"
    /\ dpc' = "exited"
    /\ exitCode' = 0
    /\ stdout' = Append(stdout, DoneMessage)
    /\ UNCHANGED <<args, run, li, wi, tasks, fs, csvFolder, aggAtStart, dirAtStart>>

\* pool.close(); pool.join(); print("Done. ..."): the driver waits for every
\* task, prints the final message and the interpreter exits with code 0
Join ==
    /\ dpc = "join"
    /\ AllEnded
    /\ dpc' = "exited"
    /\ exitCode' = 0
    /\ stdout' = Append(stdout, DoneMessage)
    /\ UNCHANGED <<args, run, li, wi, tasks, fs, csvFolder, aggAtStart, dirAtStart>>

\* the program is run again with the same arguments against the same root
Rerun ==
    /\ dpc = "exited"
    /\ exitCode = 0
    /\ run < MaxRuns
    /\ run' = run + 1
    /\ dpc' = "start"
    /\ exitCode' = -1
    /\ li' = 1
    /\ wi' = 1
    /\ tasks' = <<>>
    /\ aggAtStart' = aggregate
    /\ dirAtStart' = csvFolder
    /\ stdout' = <<>>
    /\ UNCHANGED <<args, fs, csvFolder>>

\* ---------------------------------------------------------------- run_pass
\* os.path.splitext(file_name)[0] before line 61: the name the tools use
RawBase(t) == FileName(tasks[t].f).base
Ext(t) == FileName(tasks[t].f).ext

\* lines 61-62: base_name, taken from the stripped file name
Base(t) == Strip(RawBase(t))

\* the directory of the report: the working directory for .rs (line 68),
\* os.path.join(dir, file_name) otherwise (line 77)
ReportLoc(t) == IF Ext(t) = ".rs" THEN "cwd" ELSE "root"

\* where run_pass looks for the report: base_name + ".csv"
ReportPath(t) == <<ReportLoc(t), Base(t)>>

\* where opt leaves the report: named from the name of the IR it was given
WrittenReport(t) == <<ReportLoc(t), RawBase(t)>>

Running(t) == tasks[t].pc \notin {"queued", "end"}

SetTask(t, r) == tasks' = [tasks EXCEPT ![t] = r]

Raise(t) == [tasks[t] EXCEPT !.pc = "end", !.out = "raised", !.at = tasks[t].pc]

\* a worker of the pool takes the oldest queued task
Start(t) ==
    /\ tasks[t].pc = "queued"
    /\ \A u \in 1..(t - 1) : tasks[u].pc # "queued"
    /\ Cardinality({u \in 1..Len(tasks) : Running(u)}) < PoolSize
    /\ SetTask(t, [tasks[t] EXCEPT !.pc = "dispatch"])
    /\ UNCHANGED <<args, stdout, run, dpc, exitCode, li, wi, fs, csvFolder, aggAtStart, dirAtStart>>

\* lines 16-49: the frontend of the extension is run; no frontend: return.
\* For .scala the first tool is scalac, which leaves <base>.s
Dispatch(t) ==
    /\ tasks[t].pc = "dispatch"
    /\ IF ~Supported(Ext(t))
       THEN /\ SetTask(t, [tasks[t] EXCEPT !.pc = "end", !.out = "skipped"])
            /\ UNCHANGED <<ll, sfile>>
       ELSE \E ok \in BOOLEAN :
            IF Ext(t) = ".scala"
            THEN /\ sfile' = IF ok THEN [sfile EXCEPT ![RawBase(t)] = tasks[t].f] ELSE sfile
                 /\ SetTask(t, [tasks[t] EXCEPT !.pc = "llvmdis",
                                                !.fe = IF ok THEN "ok" ELSE "fail"])
                 /\ UNCHANGED ll
            ELSE /\ ll' = IF ok THEN [ll EXCEPT ![RawBase(t)] = tasks[t].f] ELSE ll
                 /\ SetTask(t, [tasks[t] EXCEPT !.pc = "opt",
                                                !.fe = IF ok THEN "ok" ELSE "fail"])
                 /\ UNCHANGED sfile
    /\ UNCHANGED <<args, stdout, run, dpc, exitCode, li, wi, reports, fileResults,
                   aggExists, aggregate, csvFolder, aggAtStart, dirAtStart>>

\* line 40: llvm-dis <base>.s writes <base>.ll when <base>.s is there
LlvmDis(t) ==
    /\ tasks[t].pc = "llvmdis"
    /\ \E ok \in BOOLEAN :
        IF ok /\ sfile[RawBase(t)] # 0
        THEN /\ ll' = [ll EXCEPT ![RawBase(t)] = sfile[RawBase(t)]]
             /\ SetTask(t, [tasks[t] EXCEPT !.pc = "rm_s"])
        ELSE /\ ll' = ll
             /\ SetTask(t, [tasks[t] EXCEPT !.pc = "rm_s", !.fe = "fail"])
    /\ UNCHANGED <<args, stdout, run, dpc, exitCode, li, wi, sfile, reports, fileResults,
                   aggExists, aggregate, csvFolder, aggAtStart, dirAtStart>>

\* line 41: os.remove(<base>.s) raises when the file is not there
RemoveS(t) ==
    /\ tasks[t].pc = "rm_s"
    /\ IF sfile[RawBase(t)] # 0
       THEN /\ sfile' = [sfile EXCEPT ![RawBase(t)] = 0]
            /\ SetTask(t, [tasks[t] EXCEPT !.pc = "opt"])
       ELSE /\ sfile' = sfile
            /\ SetTask(t, Raise(t))
    /\ UNCHANGED <<args, stdout, run, dpc, exitCode, li, wi, ll, reports, fileResults,
                   aggExists, aggregate, csvFolder, aggAtStart, dirAtStart>>

\* the report opt writes for the IR of source file f: the report of file 1
\* is long (MaxChunks write() calls when copied), the others are short
ReportOf(f) == [o |-> f, n |-> IF f = 1 THEN MaxChunks ELSE 1]

\* lines 52-59: opt is run over <base>.ll whatever the frontend did; when it
\* succeeds it leaves the report of the IR it read
Opt(t) ==
    /\ tasks[t].pc = "opt"
    /\ \E ok \in BOOLEAN :
        IF ok /\ ll[RawBase(t)] # 0
        THEN /\ reports' = [reports EXCEPT ![WrittenReport(t)] = ReportOf(ll[RawBase(t)])]
             /\ SetTask(t, [tasks[t] EXCEPT !.pc = "rm_ll", !.an = "ok"])
        ELSE /\ reports' = reports
             /\ SetTask(t, [tasks[t] EXCEPT !.pc = "rm_ll",
                                            !.an = IF ll[RawBase(t)] # 0 THEN "fail" ELSE "noir"])
    /\ UNCHANGED <<args, stdout, run, dpc, exitCode, li, wi, ll, sfile, fileResults,
                   aggExists, aggregate, csvFolder, aggAtStart, dirAtStart>>

\* the IR removed if it is there, its absence ignored
RemoveIRIfPresent(t) ==
    /\ tasks[t].pc = "rm_ll"
    /\ IF ll[Base(t)] # 0
       THEN /\ ll' = [ll EXCEPT ![Base(t)] = 0]
            /\ SetTask(t, [tasks[t] EXCEPT !.pc = "open", !.rm = TRUE])
       ELSE /\ ll' = ll
            /\ SetTask(t, [tasks[t] EXCEPT !.pc = "open"])
    /\ UNCHANGED <<args, stdout, run, dpc, exitCode, li, wi, sfile, reports, fileResults,
                   aggExists, aggregate, csvFolder, aggAtStart, dirAtStart>>

\* line 64: os.remove(base_name + ".ll"), with the stripped name, raises
\* when the file is not there
RemoveIR(t) ==
    /\ tasks[t].pc = "rm_ll"
    /\ IF ll[Base(t)] # 0
       THEN /\ ll' = [ll EXCEPT ![Base(t)] = 0]
            /\ SetTask(t, [tasks[t] EXCEPT !.pc = "open", !.rm = TRUE])
       ELSE /\ ll' = ll
            /\ SetTask(t, Raise(t))
    /\ UNCHANGED <<args, stdout, run, dpc, exitCode, li, wi, sfile, reports, fileResults,
                   aggExists, aggregate, csvFolder, aggAtStart, dirAtStart>>

\* the write() calls that copy report c, made by task t
Chunks(t, c) ==
    [k \in 1..c.n |-> [t |-> t, r |-> run, o |-> c.o, k |-> k, n |-> c.n]]

\* results.csv opened for appending before the report is opened for reading
OpenReportAggregateFirst(t) ==
    /\ tasks[t].pc = "open"
    /\ aggExists' = TRUE
    /\ IF reports[ReportPath(t)] # NoReport
       THEN SetTask(t, [tasks[t] EXCEPT !.pc = "copy",
                                        !.buf = Chunks(t, reports[ReportPath(t)])])
       ELSE SetTask(t, Raise(t))
    /\ UNCHANGED <<args, stdout, run, dpc, exitCode, li, wi, ll, sfile, reports, fileResults,
                   aggregate, csvFolder, aggAtStart, dirAtStart>>

\* lines 68 and 80: the report is opened for reading (raises when it is not
\* there), then results.csv for appending, which creates it
OpenReport(t) ==
    /\ tasks[t].pc = "open"
    /\ IF reports[ReportPath(t)] # NoReport
       THEN /\ aggExists' = TRUE
            /\ SetTask(t, [tasks[t] EXCEPT !.pc = "copy",
                                           !.buf = Chunks(t, reports[ReportPath(t)])])
       ELSE /\ aggExists' = aggExists
            /\ SetTask(t, Raise(t))
    /\ UNCHANGED <<args, stdout, run, dpc, exitCode, li, wi, ll, sfile, reports, fileResults,
                   aggregate, csvFolder, aggAtStart, dirAtStart>>

\* lines 69 and 81: shutil.copyfileobj, one write() to results.csv (opened
\* with "a", no lock); the file is closed after the last one
WriteChunk(t) ==
    /\ tasks[t].pc = "copy"
    /\ aggregate' = Append(aggregate, Head(tasks[t].buf))
    /\ SetTask(t, [tasks[t] EXCEPT !.buf = Tail(tasks[t].buf),
                                   !.pc = IF Len(tasks[t].buf) = 1 THEN "move" ELSE "copy"])
    /\ UNCHANGED <<args, stdout, run, dpc, exitCode, li, wi, ll, sfile, reports, fileResults,
                   aggExists, csvFolder, aggAtStart, dirAtStart>>

\* the report deleted after the append instead of moved
MoveDelete(t) ==
    /\ tasks[t].pc = "move"
    /\ IF reports[ReportPath(t)] = NoReport
       THEN /\ SetTask(t, [Raise(t) EXCEPT !.mv = "nosrc"])
            /\ UNCHANGED <<reports, fileResults>>
       ELSE /\ reports' = [reports EXCEPT ![ReportPath(t)] = NoReport]
            /\ fileResults' = fileResults
            /\ SetTask(t, [tasks[t] EXCEPT !.pc = "end", !.out = "ok", !.mv = "moved"])
    /\ UNCHANGED <<args, stdout, run, dpc, exitCode, li, wi, ll, sfile, aggExists, aggregate,
                   csvFolder, aggAtStart, dirAtStart>>

\* lines 74 and 86: shutil.move(report, csv_folder) raises when
\* file-results/<base>.csv exists or the report is gone, else renames
Move(t) ==
    /\ tasks[t].pc = "move"
    /\ IF fileResults[Base(t)] # NoReport
       THEN /\ SetTask(t, [Raise(t) EXCEPT !.mv = "exists"])
            /\ UNCHANGED <<reports, fileResults>>
       ELSE IF reports[ReportPath(t)] = NoReport
       THEN /\ SetTask(t, [Raise(t) EXCEPT !.mv = "nosrc"])
            /\ UNCHANGED <<reports, fileResults>>
       ELSE /\ fileResults' = [fileResults EXCEPT ![Base(t)] = reports[ReportPath(t)]]
            /\ reports' = [reports EXCEPT ![ReportPath(t)] = NoReport]
            /\ SetTask(t, [tasks[t] EXCEPT !.pc = "end", !.out = "ok", !.mv = "moved"])
    /\ UNCHANGED <<args, stdout, run, dpc, exitCode, li, wi, ll, sfile, aggExists, aggregate,
                   csvFolder, aggAtStart, dirAtStart>>

Next ==
    \/ Validate
    \/ MakeDirs
    \/ ResolveLang
    \/ WalkStep
    \/ WalkEnd
    \/ LangsDone
    \/ Join
    \/ \E t \in 1..Len(tasks) : Start(t)
    \/ \E t \in 1..Len(tasks) : Dispatch(t)
    \/ \E t \in 1..Len(tasks) : LlvmDis(t)
    \/ \E t \in 1..Len(tasks) : RemoveS(t)
    \/ \E t \in 1..Len(tasks) : Opt(t)
    \/ \E t \in 1..Len(tasks) : RemoveIR(t)
    \/ \E t \in 1..Len(tasks) : OpenReport(t)
    \/ \E t \in 1..Len(tasks) : WriteChunk(t)
    \/ \E t \in 1..Len(tasks) : Move(t)

\* one run of the program
Spec == Init /\ [][Next]_vars

\* the program run again and again against the same root
NextRerun == Next \/ Rerun

SpecRerun == Init /\ [][NextRerun]_vars

\* lines 19-59: subprocess.run is called without timeout=, so it returns
\* when the tool exits and not before: a frontend, llvm-dis or opt that
\* never exits keeps its task inside the call
ToolHangs(t) ==
    /\ \/ tasks[t].pc = "dispatch" /\ Supported(Ext(t))
       \/ tasks[t].pc \in {"llvmdis", "opt"}
    /\ SetTask(t, [tasks[t] EXCEPT !.pc = "hung", !.at = tasks[t].pc])
    /\ UNCHANGED <<args, stdout, run, dpc, exitCode, li, wi, fs, csvFolder, aggAtStart, dirAtStart>>

\* one run of the program with tools that may never exit
NextHang == Next \/ \E t \in 1..Len(tasks) : ToolHangs(t)

SpecHang == Init /\ [][NextHang]_vars

\* ---------------------------------------------------------------- properties
\* the run has printed "Done." and exited with code 0
Done == dpc = "exited" /\ exitCode = 0

\* every submission has been made and every task has finished
Drained == dpc \in {"join", "exited"} /\ AllEnded

TaskIds == 1..Len(tasks)

\* the positions of results.csv written by the current run
NewPos == {i \in 1..Len(aggregate) : aggregate[i].r = run}

\* the entries task t has added in the current run (first write of a report)
EntriesOf(t) == {i \in NewPos : aggregate[i].t = t /\ aggregate[i].k = 1}

\* the tools did not fail on the file of task t: its frontend exited zero
\* and opt did not exit non-zero on an IR it was given
Valid(t) == tasks[t].fe = "ok" /\ tasks[t].an \in {"ok", "noir"}

\* the name of the file of task t has no blank for strip() to remove
PlainName(t) == RawBase(t) = Base(t)

IsPrefix(p, q) == Len(p) <= Len(q) /\ SubSeq(q, 1, Len(p)) = p

\* results.csv is a concatenation of whole reports: the writes of one
\* report are adjacent and in order
WholeReports ==
    \A i \in 1..Len(aggregate) :
        /\ aggregate[i].k > 1 =>
              i > 1 /\ aggregate[i - 1] = [aggregate[i] EXCEPT !.k = @ - 1]
        /\ aggregate[i].k < aggregate[i].n =>
              i < Len(aggregate) /\ aggregate[i + 1] = [aggregate[i] EXCEPT !.k = @ + 1]

\* C1: when the run is complete, results.csv is a concatenation of whole
\* reports: no report is split by what another task wrote.
C1_AppendsSerialized == Done => WholeReports

\* C2: when the run is complete, every submitted file with a supported
\* extension on which frontend and opt succeeded in each of its tasks has
\* exactly one new entry in results.csv, and that entry is the report of
\* that file; a file with another extension has none.  (Stated for the
\* files whose names have no blank to strip.)
C2_OneEntryPerValidFile ==
    Done =>
        \A f \in {tasks[t].f : t \in TaskIds} :
            LET mine == {t \in TaskIds : tasks[t].f = f}
                ents == UNION {EntriesOf(t) : t \in mine}
            IN  IF ~Supported(FileName(f).ext)
                THEN ents = {}
                ELSE (\A t \in mine : /\ tasks[t].fe = "ok" /\ tasks[t].an = "ok"
                                       /\ PlainName(t)) =>
                        /\ Cardinality(ents) = 1
                        /\ \A i \in ents : aggregate[i].o = f

\* C3: once the pool has drained, no .ll file is left in the working
\* directory, whichever way the tasks ended.
C3_NoIRAfterDrain == Drained => \A b \in Bases : ll[b] = 0

C5_FrontendFailureNoEntry ==
    Done => \A t \in TaskIds : tasks[t].fe = "fail" => EntriesOf(t) = {}

\* C6: when the run is complete and the frontend of some task failed, every
\* other task whose tools did not fail (and whose file name has no blank to
\* strip) has added the report of its own file and has left no report
\* behind.
C6_FailureContained ==
    Done =>
        \A u \in TaskIds : tasks[u].fe = "fail" =>
            \A t \in TaskIds \ {u} : Valid(t) /\ PlainName(t) =>
                /\ \E i \in EntriesOf(t) : aggregate[i].o = tasks[t].f
                /\ reports[ReportPath(t)] = NoReport

OnlyUnsupported == \A f \in tree : ~Supported(FileName(f).ext)

C9_RerunAdditive ==
    dirAtStart /\ aggAtStart # <<>> /\ dpc = "exited" =>
        /\ exitCode = 0
        /\ IsPrefix(aggAtStart, aggregate)
        /\ \A t \in TaskIds : Valid(t) /\ PlainName(t) => EntriesOf(t) # {}

\* C10: no task is submitted on account of an unrecognized token, a run
\* whose tokens are all unrecognized submits nothing, and such tokens never
\* change the exit code.
C10_UnknownTokens ==
    /\ \A t \in TaskIds : tasks[t].tok # 0 => langs[tasks[t].tok] # "cobol"
    /\ langs # <<>> /\ (\A i \in 1..Len(langs) : langs[i] = "cobol") => tasks = <<>>
    /\ dpc = "exited" /\ rootKind = "dir" => exitCode = 0

\* C10 witness: a complete run with two unrecognized tokens over a tree
\* that holds a.c, with no task submitted.
C10_Witness ==
    /\ Done
    /\ langs = <<"cobol", "cobol">>
    /\ 1 \in tree
    /\ tasks = <<>>

\* the languages of the files whose reports the current run has written to
\* results.csv
LangsWritten == {FileName(aggregate[i].o).ext : i \in NewPos}

C12_SummaryCounts ==
    Done =>
        \E i \in 1..Len(stdout) :
            /\ {"found", "succeeded", "failed"} \subseteq DOMAIN stdout[i]
            /\ stdout[i].found = Len(tasks)
            /\ stdout[i].succeeded =
                  Cardinality({t \in TaskIds : tasks[t].out = "ok"})
            /\ stdout[i].failed =
                  Cardinality({t \in TaskIds : tasks[t].out = "raised"})

\* C13: a run never comes to a standstill before the driver has exited:
\* while the driver has not exited some step can always be taken, because a
\* tool invocation that does not return is ended by its timeout and its task
\* goes on to cleanup.
C13_NoStandstill == dpc = "exited" \/ ENABLED NextHang

\* task t has run its frontend and has not yet passed the removal of the
\* IR: it holds the IR file <raw base>.ll of the working directory
HoldsIR(t) == tasks[t].pc \in {"opt", "rm_ll"} /\ tasks[t].fe = "ok"

\* C14: no two tasks hold an IR artifact at the same path at the same time,
\* and the IR a task is about to analyse is the one its own frontend wrote.
C14_OneHolderPerIR ==
    /\ \A t, u \in TaskIds :
          t # u /\ HoldsIR(t) /\ HoldsIR(u) => RawBase(t) # RawBase(u)
    /\ \A t \in TaskIds :
          tasks[t].pc = "opt" /\ ll[RawBase(t)] # 0 => ll[RawBase(t)] = tasks[t].f

\* C15: the analysis tool is never invoked for a file whose frontend failed.
C15_NoAnalysisAfterFailedFrontend ==
    \A t \in TaskIds : tasks[t].fe = "fail" => tasks[t].an = "none"

\* the run has been declared complete: the final message has been printed
Declared == \E i \in 1..Len(stdout) : stdout[i] = DoneMessage

\* C16: a submission never waits for a task (while the walk has a file left
\* the next submission can be made, whatever the tasks are doing), and once
\* the run has been declared complete every submitted task has ended and
\* none has a write to results.csv pending.
C16_SubmitThenDrain ==
    /\ dpc = "walk" /\ wi <= Len(Walk) => ENABLED WalkStep
    /\ Declared =>
          /\ dpc = "exited"
          /\ \A t \in TaskIds : Ended(t) /\ tasks[t].buf = <<>>

\* C16 witness: the run has been declared complete after two tasks, one of
\* which merged a report while the other ended by an exception.
C16_Witness ==
    /\ Declared
    /\ Len(tasks) = 2
    /\ \E t, u \in TaskIds : tasks[t].out = "ok" /\ tasks[u].out = "raised"

\* C17: in restricted mode, once the submissions are made, every file of the
\* tree whose extension is the one some token resolves to has exactly one
\* task and every other file has none, however often and in whichever case
\* a language is named.
C17_OneTaskPerMatchingFile ==
    ~Unrestricted /\ (dpc = "join" \/ Done) =>
        \A f \in tree :
            Cardinality({t \in TaskIds : tasks[t].f = f}) =
                IF \E i \in 1..Len(langs) :
                       /\ LangExt(Lower(langs[i])) # ""
                       /\ FileName(f).ext = DotExt(LangExt(Lower(langs[i])))
                THEN 1
                ELSE 0

\* C18: a task that found no report to merge has reported the missing
\* result, has added nothing to results.csv (which it has not created
\* either), and once the pool has drained its IR file is gone.
C18_MissingReportSkipped ==
    \A t \in TaskIds : tasks[t].at = "open" =>
        /\ EntriesOf(t) = {}
        /\ (\A u \in TaskIds : tasks[u].pc \notin {"copy", "move"} /\ tasks[u].mv = "none")
              => ~aggExists
        /\ Drained => ll[RawBase(t)] = 0
        /\ \E i \in 1..Len(stdout) : stdout[i].text = "missing result"

\* C19: a task is at the merge (opening, copying or moving a report), or
\* has written to results.csv or touched file-results, only if it has
\* itself removed <base name>.ll from the working directory; a task that
\* found that file absent ended there by an exception, has removed nothing,
\* has added nothing to results.csv and has moved no report.
C19_MergeOnlyAfterOwnRemoval ==
    \A t \in TaskIds :
        /\ \/ tasks[t].pc \in {"open", "copy", "move"}
           \/ tasks[t].at \in {"open", "move"}
           \/ tasks[t].buf # <<>>
           \/ tasks[t].mv # "none"
           \/ tasks[t].out = "ok"
           \/ \E i \in NewPos : aggregate[i].t = t
           => tasks[t].rm
        /\ tasks[t].at = "rm_ll" =>
              /\ tasks[t].pc = "end" /\ tasks[t].out = "raised"
              /\ ~tasks[t].rm
              /\ tasks[t].mv = "none"
              /\ ~\E i \in NewPos : aggregate[i].t = t

\* C19 witness: the run is complete; one task found <base name>.ll absent
\* and the report opt had written for it is still where opt wrote it,
\* another removed its IR and merged its report.
C19_Witness ==
    /\ Done
    /\ \E t, u \in TaskIds :
          /\ tasks[t].at = "rm_ll" /\ tasks[t].an = "ok"
          /\ reports[WrittenReport(t)] # NoReport
          /\ tasks[u].rm /\ tasks[u].out = "ok"

====
